---------------------------- MODULE Spec2Model ----------------------------
(***************************************************************************)
(* Model of the PSoC I2C F-RAM driver (src/src/FRAM.c, src/src/FRAM.h).    *)
(*                                                                         *)
(* The driver keeps one piece of state, FRAM_current_adr, its belief about *)
(* the device's address latch.  Every API function is modelled statement   *)
(* by statement; the loops (the payload copy loop of FRAM_write_to_adr and *)
(* the busy-wait loops) are positions of the control state pc, so that a   *)
(* call that never leaves a loop is a behaviour of the model.              *)
(*                                                                         *)
(* The I2C master component (project.h, generated by the vendor tool) and  *)
(* the F-RAM chip are the environment: MasterWriteBuf / MasterReadBuf      *)
(* return a status and start an interrupt-driven transfer, the hardware    *)
(* completes it later and raises the completion flag.                      *)
(*                                                                         *)
(* Specifications:                                                         *)
(*   Spec       the four API functions called in any order                 *)
(*   SpecWrite  FRAM_write_to_adr alone, with payloads of up to 255 bytes  *)
(*   SpecWriteLive  SpecWrite with the fairness of a running processor and *)
(*              of the I2C hardware                                        *)
(*   SpecBlocking  the four functions, every call waiting for completion,  *)
(*              every transfer accepted by the I2C master                  *)
(*   SpecCodec  FRAM_prep_adr alone, applied to a sampled address          *)
(***************************************************************************)
EXTENDS Integers, Sequences, FiniteSets, TLC

----------------------------------------------------------------------------
(* Program constants                                                       *)

FRAM_ADR_BYTES == 2

FRAM_PS_SHIFT == 15

FRAM_MSB_SHIFT == 8

\* 0x10000
FRAM_PS_MASK == 65536

\* 0x50
FRAM_SLAVE_ADR == 80

\* 0x1ffff
FRAM_ADR_MAX == 131071

\* 0xffffffff, as the 32-bit pattern it is (see "C integer arithmetic")
FRAM_INVALID_ADR == -1

\* 0x200u
FRAM_PARAMTER_ERROR == 512

FRAM_NO_ERROR == 0

NULL == "NULL"

FRAM_WAIT == "FRAM_WAIT"

FRAM_DONT_WAIT == "FRAM_DONT_WAIT"

(* Constants of the I2C master component the driver is built against.      *)
I2C_MSTR_NO_ERROR == 0

I2C_MSTR_NOT_READY == 4

I2C_MSTAT_RD_CMPLT == 1

I2C_MSTAT_WR_CMPLT == 2

----------------------------------------------------------------------------
(* Bounds of the model                                                     *)

\* number of API calls made in one behaviour
MaxCalls == 2

\* number of calls made in one behaviour of the long writes (SpecWrite)
MaxLongCalls == 1

----------------------------------------------------------------------------
(* C integer arithmetic                                                    *)
(*                                                                         *)
(* The model checker's integers are 32 bits wide and signed, so a uint32_t *)
(* is held as its bit pattern: v itself below 2^31, v - 2^32 from 2^31 on  *)
(* (0xffffffff is -1).  The operators below are the unsigned operations on *)
(* that pattern; none of them leaves the 32-bit range.                     *)

Pow2(n) == 2 ^ n

\* x + y in uint32_t (wraps modulo 2^32)
Add32(x, y) ==
    IF x >= 0 /\ y >= 0
    THEN IF x > 2147483647 - y
         THEN (x - 2147483647 - 1) + (y - 2147483647 - 1)
         ELSE x + y
    ELSE IF x < 0 /\ y < 0
    THEN IF x >= (-2147483647 - 1) - y
         THEN x + y
         ELSE (x + 2147483647 + 1) + (y + 2147483647 + 1)
    ELSE x + y

\* x > y in uint32_t
Above32(x, y) ==
    IF x < 0 THEN (y >= 0 \/ x > y) ELSE (y >= 0 /\ x > y)

\* x % m in uint32_t, for 0 < m < 2^30
Mod32(x, m) ==
    IF x >= 0 THEN x % m
    ELSE (((x + 2147483647 + 1) % m) + ((2147483647 % m) + 1)) % m

U8(x) == x % 256

Shr(x, n) == x \div Pow2(n)

RECURSIVE BitAnd(_, _)
BitAnd(x, y) ==
    IF x = 0 \/ y = 0 THEN 0
    ELSE (IF x % 2 = 1 /\ y % 2 = 1 THEN 1 ELSE 0) + 2 * BitAnd(x \div 2, y \div 2)

RECURSIVE BitOr(_, _)
BitOr(x, y) ==
    IF x = 0 THEN y
    ELSE IF y = 0 THEN x
    ELSE (IF x % 2 = 1 \/ y % 2 = 1 THEN 1 ELSE 0) + 2 * BitOr(x \div 2, y \div 2)

----------------------------------------------------------------------------
(* Inputs the callers draw from                                            *)

\* 0, 0x100, 0x10000, 0x1fffe, 0x1ffff, 0x20000, 0xffffffff
AdrInputs == {0, 256, 65536, 131070, 131071, 131072, FRAM_INVALID_ADR}

CountInputs == {0, 1, 2}

\* counts around 254, the first at which 2 + count no longer fits an 8-bit index
LongCountInputs == {1, 253, 254, 255}

\* the caller's arrays holding data to write, 256 bytes each (no call of the
\* model reads past the end of the caller's array)
Buffers == {"bufA", "bufB"}

\* buffer arguments of a write: none, or one of the arrays
BufferInputs == {NULL} \cup Buffers

\* buffer arguments of a read: none, or the array the caller reads into
ReadBufferInputs == {NULL, "bufR"}

\* byte k of the caller's array b (bufA starts 0xAA, 0xBB)
BufferByte(b, k) == IF b = "bufA" THEN (170 + 17 * k) % 256 ELSE (k + 1) % 256

WaitInputs == {FRAM_WAIT, FRAM_DONT_WAIT}

\* addresses sampled for the codec alone: every boundary of a byte and of the page
CodecInputs ==
    (0 .. 40) \cup (250 .. 260) \cup (65530 .. 65540) \cup (131060 .. 131080)
      \cup {4660, 43981, 74565, 2147483647, -2147483647, FRAM_INVALID_ADR}

----------------------------------------------------------------------------
VARIABLES
    FRAM_current_adr,   \* static uint32_t FRAM_current_adr
    pc,                 \* position of the running call, "idle" between calls
    op,                 \* API function called last
    adr, buffer, count, wait,   \* its parameters
    adr_ary,            \* local uint8_t adr_ary[3] (<<>> while not written)
    i2c_result,         \* local uint32_t i2c_result
    i, j,               \* locals uint8_t i, j of FRAM_write_to_adr
    data_out,           \* the malloc'ed output array of FRAM_write_to_adr
    ret,                \* value returned by the last call that returned
    xfers,              \* history: Transport calls made by the running/last call
    cache0,             \* history: FRAM_current_adr when that call was made
    ncalls,             \* number of calls made
    mstrStatus,         \* I2C master status bits (completion flags)
    inflight,           \* the transfer the I2C hardware is performing, or None
    latch, mem,         \* the F-RAM chip: address latch and written cells
    rdbuf,              \* bytes delivered into the caller's read buffer
    lastWrite           \* history: the last FRAM_write_to_adr that returned success

vars == <<FRAM_current_adr, pc, op, adr, buffer, count, wait, adr_ary,
          i2c_result, i, j, data_out, ret, xfers, cache0, ncalls,
          mstrStatus, inflight, latch, mem, rdbuf, lastWrite>>

drv == <<FRAM_current_adr, pc, op, adr, buffer, count, wait, adr_ary,
         i2c_result, i, j, data_out, ret, xfers, cache0, ncalls, lastWrite>>

args == <<op, adr, buffer, count, wait, cache0, ncalls>>

NoWrite == [at |-> 0, adr |-> 0, buffer |-> NULL, count |-> 0, cache0 |-> 0]

locals == <<adr_ary, i2c_result, i, j, data_out>>

hw == <<mstrStatus, inflight, latch, mem, rdbuf>>

None == [kind |-> "none"]

----------------------------------------------------------------------------
(* AddressCodec: static uint32_t FRAM_prep_adr(adr, adr_ary)               *)

\* the Page Select term OR'ed into the slave address
PageSelect(a) == Shr(BitAnd(a, FRAM_PS_MASK), FRAM_PS_SHIFT)

\* (variant: the range check lets the first address past the end through)
AdrInRange_offByOne(a) == ~Above32(a, FRAM_ADR_MAX + 1)

\* the address may be encoded
AdrInRange(a) == ~Above32(a, FRAM_ADR_MAX)

\* (variant: the two address bytes in little-endian order)
FRAM_prep_adr_lsbFirst(a, ary) ==
    IF ~AdrInRange(a)
    THEN [ret |-> FRAM_PARAMTER_ERROR, adr_ary |-> ary]
    ELSE [ret |-> FRAM_NO_ERROR,
          adr_ary |-> << U8(a),
                         U8(Shr(a, FRAM_MSB_SHIFT)),
                         U8(BitOr(FRAM_SLAVE_ADR, PageSelect(a))) >>]

FRAM_prep_adr(a, ary) ==
    IF ~AdrInRange(a)
    THEN [ret |-> FRAM_PARAMTER_ERROR, adr_ary |-> ary]
    ELSE [ret |-> FRAM_NO_ERROR,
          adr_ary |-> << U8(Shr(a, FRAM_MSB_SHIFT)),
                         U8(a),
                         U8(BitOr(FRAM_SLAVE_ADR, PageSelect(a))) >>]

----------------------------------------------------------------------------
(* Transport: the I2C master component and the chip behind it              *)

\* (variant: the wait for a write polls the read-complete flag)
WriteComplete_readFlag == ~(0 = BitAnd(mstrStatus, I2C_MSTAT_RD_CMPLT))

\* the loop conditions of the busy-waits: 0u == (MasterStatus() & flag)
WriteComplete == ~(0 = BitAnd(mstrStatus, I2C_MSTAT_WR_CMPLT))

ReadComplete == ~(0 = BitAnd(mstrStatus, I2C_MSTAT_RD_CMPLT))

ClearFlag(status, flag) == status - BitAnd(status, flag)

\* what MasterWriteBuf / MasterReadBuf may return: a transfer is started
\* (NO_ERROR) only while the master is idle
TransportResults ==
    IF inflight = None THEN {I2C_MSTR_NO_ERROR, I2C_MSTR_NOT_READY}
    ELSE {I2C_MSTR_NOT_READY}

\* I2CMasterWriteBuf(slave, data, cnt, COMPLETE_XFER) returning r; onStack
\* tells that data points into the caller's stack frame
MasterWriteBuf(slave, data, onStack, r) ==
    /\ r \in TransportResults
    /\ xfers' = Append(xfers, [kind |-> "W", slave |-> slave, data |-> data,
                               cnt |-> Len(data), result |-> r])
    /\ IF r = I2C_MSTR_NO_ERROR
       THEN /\ inflight' = [kind |-> "W", slave |-> slave, data |-> data,
                            cnt |-> Len(data), stack |-> onStack, call |-> ncalls]
            /\ mstrStatus' = ClearFlag(mstrStatus, I2C_MSTAT_WR_CMPLT)
       ELSE UNCHANGED <<inflight, mstrStatus>>
    /\ UNCHANGED <<latch, mem, rdbuf>>

\* I2CMasterReadBuf(slave, buffer, cnt, COMPLETE_XFER) returning r
MasterReadBuf(slave, cnt, r) ==
    /\ r \in TransportResults
    /\ xfers' = Append(xfers, [kind |-> "R", slave |-> slave, data |-> <<>>,
                               cnt |-> cnt, result |-> r])
    /\ IF r = I2C_MSTR_NO_ERROR
       THEN /\ inflight' = [kind |-> "R", slave |-> slave, data |-> <<>>,
                            cnt |-> cnt, stack |-> FALSE, call |-> ncalls]
            /\ mstrStatus' = ClearFlag(mstrStatus, I2C_MSTAT_RD_CMPLT)
       ELSE UNCHANGED <<inflight, mstrStatus>>
    /\ UNCHANGED <<latch, mem, rdbuf>>

\* The chip: 2^17 cells, selected by its bus identity with the page select
\* bit in the least significant bit of the 7-bit slave address
DeviceSize == FRAM_ADR_MAX + 1

DeviceSelected(slave) == slave \div 2 = FRAM_SLAVE_ADR \div 2

DevicePage(slave) == slave % 2

Mem(a) == IF a \in DOMAIN mem THEN mem[a] ELSE 0

\* latch loaded by the two address bytes of a write transfer
LatchLoaded(slave, data) == DevicePage(slave) * 65536 + data[1] * 256 + data[2]

\* cells written by the payload (the bytes after the two address bytes)
CellsWritten(slave, data) ==
    { (LatchLoaded(slave, data) + k) % DeviceSize : k \in 0 .. (Len(data) - 3) }

MemWritten(slave, data) ==
    [a \in DOMAIN mem \cup CellsWritten(slave, data) |->
        IF a \in CellsWritten(slave, data)
        THEN data[3 + ((a - LatchLoaded(slave, data)) % DeviceSize)]
        ELSE mem[a]]

\* the frame of FRAM_set_adr that owns the transfer's adr_ary is still live
FrameLive == inflight.call = ncalls /\ pc \in {"set_wait", "set_upd"}

\* the address bytes the hardware fetches: those written by the driver, or,
\* once FRAM_set_adr(adr, FRAM_DONT_WAIT) has returned, whatever the stack holds
BytesFetched ==
    IF inflight.stack /\ ~FrameLive
    THEN {inflight.data, <<0, 0>>, <<255, 255>>}
    ELSE {inflight.data}

\* the I2C hardware finishes the transfer in flight and raises its flag
HwComplete ==
    /\ inflight # None
    /\ inflight' = None
    /\ IF inflight.kind = "W"
       THEN /\ mstrStatus' = BitOr(mstrStatus, I2C_MSTAT_WR_CMPLT)
            /\ rdbuf' = rdbuf
            /\ IF DeviceSelected(inflight.slave)
               THEN \E d \in BytesFetched :
                      /\ mem' = MemWritten(inflight.slave, d)
                      /\ latch' = (LatchLoaded(inflight.slave, d) + Len(d) - 2) % DeviceSize
               ELSE UNCHANGED <<latch, mem>>
       ELSE /\ mstrStatus' = BitOr(mstrStatus, I2C_MSTAT_RD_CMPLT)
            /\ mem' = mem
            /\ IF DeviceSelected(inflight.slave)
               THEN /\ rdbuf' = [k \in 1 .. inflight.cnt |-> Mem((latch + k - 1) % DeviceSize)]
                    /\ latch' = (latch + inflight.cnt) % DeviceSize
               ELSE /\ rdbuf' = [k \in 1 .. inflight.cnt |-> 255]
                    /\ latch' = latch
    /\ UNCHANGED drv

----------------------------------------------------------------------------
(* TransactionOrchestrator: the API functions of FRAM.c                    *)

\* (variant: the test without its negation)
CacheUpdateDue_notNegated(r) == BitAnd(r, I2C_MSTR_NO_ERROR) # 0

\* the test guarding every cache update: !(i2c_result & I2C_MSTR_NO_ERROR)
CacheUpdateDue(r) == ~(BitAnd(r, I2C_MSTR_NO_ERROR) # 0)

\* (variant: the test compares the two address bytes and ignores the page)
LatchAtAddress_samePage(cur, a) == cur % 65536 = a % 65536

\* FRAM_read_from_adr's test that the latch is already at the address
LatchAtAddress(cur, a) == ~(cur # a)

\* FRAM_read_current_adr's and FRAM_write_to_adr's parameter check
BadBuffer(b, c) == b = NULL \/ c = 0

\* the cache after a read of c bytes
AdrAfterRead(cur, c) == Mod32(Add32(cur, c), FRAM_ADR_MAX)

\* (variant: the cache is left at the address written to)
AdrAfterWrite_unmoved(a, c) == a

\* (variant: the cache wraps at the end of the device, as the latch does)
AdrAfterWrite_wrapped(a, c) == Mod32(Add32(a, c), FRAM_ADR_MAX + 1)

\* the cache after a write of c bytes at a
AdrAfterWrite(a, c) == Add32(a, c)

\* the bound of the copy loop, FRAM_ADR_BYTES+count in 32-bit arithmetic
CopyBound(c) == Add32(FRAM_ADR_BYTES, c)

\* a caller makes a call: parameters stored, locals not yet written
Enter(o, a, b, c, w, entry, limit) ==
    /\ pc = "idle"
    /\ ncalls < limit
    /\ ncalls' = ncalls + 1
    /\ op' = o /\ adr' = a /\ buffer' = b /\ count' = c /\ wait' = w
    /\ pc' = entry
    /\ cache0' = FRAM_current_adr
    /\ xfers' = <<>>
    /\ ret' = "none"
    /\ adr_ary' = <<>> /\ i2c_result' = 0 /\ i' = 0 /\ j' = 0 /\ data_out' = <<>>
    /\ UNCHANGED <<FRAM_current_adr, lastWrite>>
    /\ UNCHANGED hw

Call_set_adr ==
    \E a \in AdrInputs, w \in WaitInputs :
        Enter("FRAM_set_adr", a, NULL, 0, w, "set_entry", MaxCalls)

Call_read_current_adr ==
    \E b \in ReadBufferInputs, c \in CountInputs, w \in WaitInputs :
        Enter("FRAM_read_current_adr", 0, b, c, w, "rd_entry", MaxCalls)

Call_read_from_adr ==
    \E a \in AdrInputs, b \in ReadBufferInputs, c \in CountInputs :
        Enter("FRAM_read_from_adr", a, b, c, FRAM_WAIT, "rfa_entry", MaxCalls)

Call_write_to_adr ==
    \E a \in AdrInputs, b \in BufferInputs, c \in CountInputs :
        Enter("FRAM_write_to_adr", a, b, c, FRAM_WAIT, "wr_entry", MaxCalls)

\* the same call with a payload of up to 255 bytes
Call_write_long ==
    \E a \in AdrInputs, b \in Buffers, c \in LongCountInputs :
        Enter("FRAM_write_to_adr", a, b, c, FRAM_WAIT, "wr_entry", MaxLongCalls)

\* the API function returns v to the caller
Return(v) == pc' = "idle" /\ ret' = v

\* FRAM_set_adr returns v: to the caller, or into FRAM_read_from_adr (line 97)
SetAdrReturn(v) ==
    IF op = "FRAM_set_adr"
    THEN Return(v) /\ i2c_result' = i2c_result
    ELSE pc' = "rfa_chk" /\ i2c_result' = v /\ ret' = ret

\* FRAM_set_adr, lines 45-53: encode, then start the address write
SetAdr_Entry ==
    /\ lastWrite' = lastWrite
    /\ pc = "set_entry"
    /\ LET p == FRAM_prep_adr(adr, adr_ary) IN
       IF p.ret # FRAM_NO_ERROR
       THEN /\ SetAdrReturn(FRAM_PARAMTER_ERROR)
            /\ UNCHANGED <<adr_ary, xfers>>
            /\ UNCHANGED hw
       ELSE /\ adr_ary' = p.adr_ary
            /\ \E r \in TransportResults :
                 /\ MasterWriteBuf(p.adr_ary[FRAM_ADR_BYTES + 1],
                                   SubSeq(p.adr_ary, 1, FRAM_ADR_BYTES), TRUE, r)
                 /\ i2c_result' = r
            /\ pc' = IF wait = FRAM_WAIT THEN "set_wait" ELSE "set_upd"
            /\ ret' = ret
    /\ UNCHANGED <<FRAM_current_adr, i, j, data_out>>
    /\ UNCHANGED args

\* FRAM_set_adr, lines 56-57: the busy-wait ends when the flag is seen
SetAdr_Wait ==
    /\ lastWrite' = lastWrite
    /\ pc = "set_wait"
    /\ WriteComplete
    /\ pc' = "set_upd"
    /\ UNCHANGED <<FRAM_current_adr, ret, xfers>>
    /\ UNCHANGED <<args, locals, hw>>

\* FRAM_set_adr, lines 59-64: cache update and return
SetAdr_Update ==
    /\ lastWrite' = lastWrite
    /\ pc = "set_upd"
    /\ FRAM_current_adr' = IF CacheUpdateDue(i2c_result) THEN adr ELSE FRAM_current_adr
    /\ SetAdrReturn(i2c_result)
    /\ UNCHANGED <<adr_ary, i, j, data_out, xfers>>
    /\ UNCHANGED <<args, hw>>

\* FRAM_read_current_adr, lines 71-80 (and 82-86 when not waiting)
ReadCur_Entry ==
    /\ lastWrite' = lastWrite
    /\ pc = "rd_entry"
    /\ IF BadBuffer(buffer, count)
       THEN /\ Return(FRAM_PARAMTER_ERROR)
            /\ UNCHANGED <<FRAM_current_adr, i2c_result, xfers>>
            /\ UNCHANGED hw
       ELSE \E r \in TransportResults :
              /\ MasterReadBuf(FRAM_SLAVE_ADR, count, r)
              /\ i2c_result' = r
              /\ FRAM_current_adr' = IF CacheUpdateDue(r)
                                     THEN AdrAfterRead(FRAM_current_adr, count)
                                     ELSE FRAM_current_adr
              /\ IF wait = FRAM_WAIT
                 THEN pc' = "rd_wait" /\ ret' = ret
                 ELSE Return(r)
    /\ UNCHANGED <<adr_ary, i, j, data_out>>
    /\ UNCHANGED args

\* FRAM_read_current_adr, lines 82-86: busy-wait for the read, then return
ReadCur_Wait ==
    /\ lastWrite' = lastWrite
    /\ pc = "rd_wait"
    /\ ReadComplete
    /\ Return(i2c_result)
    /\ UNCHANGED <<FRAM_current_adr, xfers>>
    /\ UNCHANGED <<args, locals, hw>>

\* FRAM_read_from_adr, lines 93-97: set the address unless the cache matches
ReadFrom_Entry ==
    /\ lastWrite' = lastWrite
    /\ pc = "rfa_entry"
    /\ pc' = IF LatchAtAddress(FRAM_current_adr, adr) THEN "rd_entry" ELSE "set_entry"
    /\ UNCHANGED <<FRAM_current_adr, ret, xfers>>
    /\ UNCHANGED <<args, locals, hw>>

\* (variant: the result of FRAM_set_adr is not looked at)
ReadFrom_Check_resultIgnored ==
    /\ lastWrite' = lastWrite
    /\ pc = "rfa_chk"
    /\ pc' = "rd_entry" /\ ret' = ret
    /\ UNCHANGED <<FRAM_current_adr, xfers>>
    /\ UNCHANGED <<args, locals, hw>>

\* FRAM_read_from_adr, lines 99-105: give up on an error, else read
ReadFrom_Check ==
    /\ lastWrite' = lastWrite
    /\ pc = "rfa_chk"
    /\ IF i2c_result # I2C_MSTR_NO_ERROR
       THEN Return(i2c_result)
       ELSE pc' = "rd_entry" /\ ret' = ret
    /\ UNCHANGED <<FRAM_current_adr, xfers>>
    /\ UNCHANGED <<args, locals, hw>>

\* FRAM_write_to_adr, lines 116-131: checks, encode, allocate, address bytes
Write_Entry ==
    /\ lastWrite' = lastWrite
    /\ pc = "wr_entry"
    /\ LET p == FRAM_prep_adr(adr, adr_ary) IN
       IF BadBuffer(buffer, count) \/ p.ret # FRAM_NO_ERROR
       THEN /\ Return(FRAM_PARAMTER_ERROR)
            /\ UNCHANGED <<adr_ary, i, j, data_out>>
       ELSE /\ adr_ary' = p.adr_ary
            /\ data_out' = [k \in 1 .. Add32(count, FRAM_ADR_BYTES) |->
                              IF k <= FRAM_ADR_BYTES THEN p.adr_ary[k] ELSE 0]
            /\ i' = FRAM_ADR_BYTES
            /\ j' = 0
            /\ pc' = "wr_copy"
            /\ ret' = ret
    /\ UNCHANGED <<FRAM_current_adr, i2c_result, xfers>>
    /\ UNCHANGED <<args, hw>>

\* FRAM_write_to_adr, lines 131-132: one round of the payload copy loop
Write_Copy ==
    /\ lastWrite' = lastWrite
    /\ pc = "wr_copy"
    /\ Above32(CopyBound(count), i)
    /\ data_out' = [data_out EXCEPT ![i + 1] = BufferByte(buffer, j)]
    /\ i' = U8(i + 1)
    /\ j' = U8(j + 1)
    /\ UNCHANGED <<FRAM_current_adr, pc, adr_ary, i2c_result, ret, xfers>>
    /\ UNCHANGED <<args, hw>>

\* FRAM_write_to_adr, line 135: the loop is left, the combined write starts
Write_Issue ==
    /\ lastWrite' = lastWrite
    /\ pc = "wr_copy"
    /\ ~Above32(CopyBound(count), i)
    /\ \E r \in TransportResults :
         /\ MasterWriteBuf(adr_ary[FRAM_ADR_BYTES + 1],
                           SubSeq(data_out, 1, CopyBound(count)), FALSE, r)
         /\ i2c_result' = r
    /\ pc' = "wr_wait"
    /\ UNCHANGED <<FRAM_current_adr, adr_ary, i, j, data_out, ret>>
    /\ UNCHANGED args

\* FRAM_write_to_adr, lines 137-144: busy-wait, cache update, return
Write_Wait ==
    /\ pc = "wr_wait"
    /\ WriteComplete
    /\ FRAM_current_adr' = IF CacheUpdateDue(i2c_result)
                           THEN AdrAfterWrite(adr, count)
                           ELSE FRAM_current_adr
    /\ Return(i2c_result)
    /\ lastWrite' = IF i2c_result = FRAM_NO_ERROR
                    THEN [at |-> ncalls, adr |-> adr, buffer |-> buffer, count |-> count,
                          cache0 |-> cache0]
                    ELSE lastWrite
    /\ UNCHANGED xfers
    /\ UNCHANGED <<args, locals, hw>>

----------------------------------------------------------------------------
(* The driver with its environment                                         *)

Init ==
    /\ FRAM_current_adr = FRAM_INVALID_ADR
    /\ pc = "idle"
    /\ op = "none" /\ adr = 0 /\ buffer = NULL /\ count = 0 /\ wait = FRAM_WAIT
    /\ adr_ary = <<>> /\ i2c_result = 0 /\ i = 0 /\ j = 0 /\ data_out = <<>>
    /\ ret = "none"
    /\ xfers = <<>>
    /\ cache0 = FRAM_INVALID_ADR
    /\ ncalls = 0
    /\ mstrStatus = 0
    /\ inflight = None
    /\ latch = 0
    /\ mem = <<>>
    /\ rdbuf = <<>>
    /\ lastWrite = NoWrite

Next ==
    \/ Call_set_adr
    \/ Call_read_current_adr
    \/ Call_read_from_adr
    \/ Call_write_to_adr
    \/ SetAdr_Entry
    \/ SetAdr_Wait
    \/ SetAdr_Update
    \/ ReadCur_Entry
    \/ ReadCur_Wait
    \/ ReadFrom_Entry
    \/ ReadFrom_Check
    \/ Write_Entry
    \/ Write_Copy
    \/ Write_Issue
    \/ Write_Wait
    \/ HwComplete

Spec == Init /\ [][Next]_vars

\* FRAM_write_to_adr alone, with long payloads
NextWrite ==
    \/ Call_write_long
    \/ Write_Entry
    \/ Write_Copy
    \/ Write_Issue
    \/ Write_Wait
    \/ HwComplete

SpecWrite == Init /\ [][NextWrite]_vars

\* The running call executes its next statement (the processor does not
\* stop), and the I2C hardware finishes a transfer it has started
WriteStep == Write_Entry \/ Write_Copy \/ Write_Issue \/ Write_Wait

SpecWriteLive == SpecWrite /\ WF_vars(WriteStep) /\ WF_vars(HwComplete)

\* every Transport call of the running call was accepted
AllAccepted == \A k \in 1 .. Len(xfers) : xfers[k].result = I2C_MSTR_NO_ERROR

\* The same calls, all of them waiting for completion (FRAM_WAIT), over a
\* Transport that accepts every transfer
NextBlocking ==
    \/ Call_set_adr /\ wait' = FRAM_WAIT
    \/ Call_read_current_adr /\ wait' = FRAM_WAIT
    \/ Call_read_from_adr
    \/ Call_write_to_adr
    \/ SetAdr_Entry /\ AllAccepted'
    \/ SetAdr_Wait
    \/ SetAdr_Update
    \/ ReadCur_Entry /\ AllAccepted'
    \/ ReadCur_Wait
    \/ ReadFrom_Entry
    \/ ReadFrom_Check
    \/ Write_Entry
    \/ Write_Copy
    \/ Write_Issue /\ AllAccepted'
    \/ Write_Wait
    \/ HwComplete

SpecBlocking == Init /\ [][NextBlocking]_vars

\* FRAM_prep_adr alone, applied to one sampled address
InitCodec ==
    /\ FRAM_current_adr = FRAM_INVALID_ADR
    /\ pc = "codec"
    /\ op = "FRAM_prep_adr" /\ adr \in CodecInputs
    /\ buffer = NULL /\ count = 0 /\ wait = FRAM_WAIT
    /\ adr_ary = <<>> /\ i2c_result = 0 /\ i = 0 /\ j = 0 /\ data_out = <<>>
    /\ ret = "none"
    /\ xfers = <<>>
    /\ cache0 = FRAM_INVALID_ADR
    /\ ncalls = 0
    /\ mstrStatus = 0
    /\ inflight = None
    /\ latch = 0
    /\ mem = <<>>
    /\ rdbuf = <<>>
    /\ lastWrite = NoWrite

Codec_Apply ==
    /\ pc = "codec"
    /\ adr_ary' = FRAM_prep_adr(adr, adr_ary).adr_ary
    /\ ret' = FRAM_prep_adr(adr, adr_ary).ret
    /\ pc' = "codec_done"
    /\ UNCHANGED <<FRAM_current_adr, i2c_result, i, j, data_out, xfers, lastWrite>>
    /\ UNCHANGED <<args, hw>>

SpecCodec == InitCodec /\ [][Codec_Apply]_vars

----------------------------------------------------------------------------
(* Properties                                                              *)

\* an address the codec accepts, as a number
ValidAdr(a) == a >= 0 /\ a <= FRAM_ADR_MAX

Bit16(a) == (a \div 65536) % 2

\* the kinds of the Transport calls made by the running (or last) call
Kinds == [k \in 1 .. Len(xfers) |-> xfers[k].kind]

NumWrites == Cardinality({k \in 1 .. Len(xfers) : xfers[k].kind = "W"})

Returned == pc = "idle" /\ op # "none"

\* C1: FRAM_read_from_adr with a valid address, a buffer and count > 0 makes
\* no set-address transfer when the cache equals the address exactly, and
\* exactly one, ahead of the read transfer, when the cache is unknown or holds
\* any other value.
C1_SkipOptimization ==
    (op = "FRAM_read_from_adr" /\ ValidAdr(adr) /\ buffer # NULL /\ count > 0)
    => IF cache0 = adr
       THEN NumWrites = 0
       ELSE /\ pc \in {"rfa_entry", "set_entry"} => xfers = <<>>
            /\ pc \notin {"rfa_entry", "set_entry"} =>
                 /\ NumWrites = 1
                 /\ xfers[1].kind = "W"
                 /\ xfers[1].cnt = FRAM_ADR_BYTES

C1_Witness ==
    /\ Returned
    /\ op = "FRAM_read_from_adr" /\ adr = 65536 /\ buffer # NULL /\ count = 2
    /\ cache0 = 65536
    /\ ret = FRAM_NO_ERROR
    /\ Kinds = <<"R">>

\* C2: after a successful FRAM_read_current_adr of n bytes from a known
\* cached address a, the cache is (a + n) mod (FRAM_ADR_MAX + 1).
C2_ReadAdvancesCache ==
    (Returned /\ op = "FRAM_read_current_adr" /\ ret = FRAM_NO_ERROR /\ ValidAdr(cache0))
    => FRAM_current_adr = (cache0 + count) % (FRAM_ADR_MAX + 1)

\* C3: FRAM_read_from_adr with an address above FRAM_ADR_MAX returns
\* FRAM_PARAMTER_ERROR and makes no Transport call, in every reachable state.
C3_ReadFromRejectsAddress ==
    (op = "FRAM_read_from_adr" /\ Above32(adr, FRAM_ADR_MAX))
    => /\ xfers = <<>>
       /\ pc = "idle" => ret = FRAM_PARAMTER_ERROR

\* C4: a null buffer or a zero count is detected before any bus activity:
\* the three functions taking a buffer make no Transport call, leave the
\* cache as it was and return FRAM_PARAMTER_ERROR.
C4_BadBufferNoBusActivity ==
    (/\ op \in {"FRAM_read_current_adr", "FRAM_read_from_adr", "FRAM_write_to_adr"}
     /\ (buffer = NULL \/ count = 0))
    => /\ xfers = <<>>
       /\ FRAM_current_adr = cache0
       /\ pc = "idle" => ret = FRAM_PARAMTER_ERROR

\* C5: for every address up to FRAM_ADR_MAX the codec puts the page select
\* bit into the least significant bit of the bus address: 0x50 with bit 16
\* clear, 0x51 with bit 16 set.
C5_PageBitInLsb ==
    (pc = "codec_done" /\ ValidAdr(adr))
    => adr_ary[FRAM_ADR_BYTES + 1] = FRAM_SLAVE_ADR + Bit16(adr)

\* C6: for every address up to FRAM_ADR_MAX the codec yields the high byte
\* (a >> 8) mod 256, the low byte a mod 256, and a bus address that carries
\* a page bit exactly when bit 16 of the address is set.
C6_AddressBytes ==
    (pc = "codec_done" /\ ValidAdr(adr))
    => /\ ret = FRAM_NO_ERROR
       /\ adr_ary[1] = (adr \div 256) % 256
       /\ adr_ary[2] = adr % 256
       /\ (adr_ary[3] # FRAM_SLAVE_ADR) <=> (Bit16(adr) = 1)

C6_Witness ==
    /\ pc = "codec_done"
    /\ adr = 74565
    /\ adr_ary[1] = 35 /\ adr_ary[2] = 69
    /\ adr_ary[3] # FRAM_SLAVE_ADR

\* C7: an address above FRAM_ADR_MAX is rejected before any bus activity:
\* the codec answers FRAM_PARAMTER_ERROR, and FRAM_set_adr (either wait mode)
\* and FRAM_write_to_adr return it without a Transport call and without
\* touching the cache.
C7_BadAddressRejected ==
    (op \in {"FRAM_set_adr", "FRAM_write_to_adr"} /\ Above32(adr, FRAM_ADR_MAX))
    => /\ FRAM_prep_adr(adr, adr_ary).ret = FRAM_PARAMTER_ERROR
       /\ xfers = <<>>
       /\ inflight = None \/ inflight.call # ncalls
       /\ FRAM_current_adr = cache0
       /\ pc \in {"set_entry", "wr_entry", "idle"}
       /\ pc = "idle" => ret = FRAM_PARAMTER_ERROR

C7_Witness ==
    /\ Returned
    /\ op = "FRAM_set_adr" /\ adr = 131072 /\ wait = FRAM_DONT_WAIT
    /\ ret = FRAM_PARAMTER_ERROR
    /\ cache0 = 256 /\ FRAM_current_adr = 256
    /\ xfers = <<>>

\* byte k (from 1) of the transfer FRAM_write_to_adr is to make: the two
\* address bytes, then the payload
CombinedByte(k) ==
    IF k = 1 THEN (adr \div 256) % 256
    ELSE IF k = 2 THEN adr % 256
    ELSE BufferByte(buffer, k - 3)

\* C8: FRAM_write_to_adr with a valid address, a buffer and n >= 1 makes
\* exactly one Transport write, to the codec's bus address, of exactly 2 + n
\* bytes: the two address bytes, then buf[0..n-1] in order.
C8_WriteOneCombinedTransfer ==
    (op = "FRAM_write_to_adr" /\ ValidAdr(adr) /\ buffer # NULL /\ count >= 1)
    => /\ pc \in {"wr_entry", "wr_copy"} => xfers = <<>>
       /\ pc = "wr_copy" =>
            /\ i = FRAM_ADR_BYTES + j
            /\ j <= count
            /\ \A k \in 1 .. i : data_out[k] = CombinedByte(k)
       /\ pc \in {"wr_wait", "idle"} =>
            /\ Len(xfers) = 1
            /\ xfers[1].kind = "W"
            /\ xfers[1].slave = FRAM_prep_adr(adr, adr_ary).adr_ary[3]
            /\ xfers[1].data = [k \in 1 .. FRAM_ADR_BYTES + count |-> CombinedByte(k)]

\* C9: when the Transport reports a failure for the transfer of FRAM_set_adr,
\* FRAM_read_current_adr or FRAM_write_to_adr, the cache after the call is
\* the cache before the call.
C9_FailureLeavesCache ==
    (/\ Returned
     /\ op \in {"FRAM_set_adr", "FRAM_read_current_adr", "FRAM_write_to_adr"}
     /\ Len(xfers) = 1
     /\ xfers[1].result # I2C_MSTR_NO_ERROR)
    => FRAM_current_adr = cache0

\* C10: with every transfer accepted, FRAM_write_to_adr(a, data, n) followed
\* by FRAM_read_from_adr(a, buf, n), a + n <= FRAM_ADR_MAX, reads back the
\* bytes written, on either page.
C10_RoundTrip ==
    (/\ Returned
     /\ op = "FRAM_read_from_adr" /\ ret = FRAM_NO_ERROR
     /\ lastWrite.at > 0 /\ lastWrite.at = ncalls - 1
     /\ lastWrite.adr = adr /\ lastWrite.count = count
     /\ ValidAdr(adr) /\ adr + count <= FRAM_ADR_MAX)
    => rdbuf = [k \in 1 .. count |-> BufferByte(lastWrite.buffer, k - 1)]

\* the running FRAM_read_from_adr follows, call on call, a successful
\* FRAM_write_to_adr of the same count to the same address that was itself
\* made with the cache unknown
ReadFollowsFirstWrite ==
    /\ op = "FRAM_read_from_adr"
    /\ lastWrite.at > 0 /\ lastWrite.at = ncalls - 1
    /\ lastWrite.cache0 = FRAM_INVALID_ADR
    /\ lastWrite.adr = adr /\ lastWrite.count = count

\* C11 (as claimed): from an unknown cache, FRAM_write_to_adr(a, data, n) then
\* FRAM_read_from_adr(a, buf, n), both succeeding, carry one address-setting
\* transfer in all, the prefix of the write: the read makes no set-address
\* transfer of its own.
C11_OneAddressSetTotal ==
    (Returned /\ ReadFollowsFirstWrite /\ ret = FRAM_NO_ERROR)
    => NumWrites = 0

\* C11 (amended): in that sequence the read makes exactly one set-address
\* transfer of its own, ahead of its read transfer, because the write leaves
\* the cache at a + n: two address-setting transfers in all.
C11_ReadSetsAddressAfterWrite ==
    (ReadFollowsFirstWrite /\ pc \notin {"rfa_entry", "set_entry"})
    => /\ cache0 = Add32(adr, count)
       /\ NumWrites = 1
       /\ xfers[1].kind = "W"
       /\ xfers[1].cnt = FRAM_ADR_BYTES
       /\ \A k \in 2 .. Len(xfers) : xfers[k].kind = "R"

C11_Witness ==
    /\ Returned /\ ReadFollowsFirstWrite /\ ret = FRAM_NO_ERROR
    /\ adr = 256 /\ count = 2 /\ lastWrite.buffer = "bufA"
    /\ Kinds = <<"W", "R">>
    /\ rdbuf = <<170, 187>>

\* C12: when FRAM_set_adr(a, wait) returns FRAM_NO_ERROR, whatever the wait
\* mode and whatever the cache held before, the cache (the value FRAM_get_adr
\* returns) is a.
C12_SetAdrSetsCache ==
    (Returned /\ op = "FRAM_set_adr" /\ ret = FRAM_NO_ERROR)
    => /\ ValidAdr(adr)
       /\ FRAM_current_adr = adr

C12_Witness ==
    /\ Returned
    /\ op = "FRAM_set_adr" /\ adr = 131071 /\ wait = FRAM_DONT_WAIT
    /\ ret = FRAM_NO_ERROR
    /\ cache0 = 256
    /\ FRAM_current_adr = 131071

\* C13: with every call waiting for completion and every transfer accepted,
\* whenever the cache is known between two calls it equals the address latch
\* of the device (set by a set-address transfer, left at a + n by a write of
\* n bytes at a, advanced by n by a read of n bytes, rolling over from
\* FRAM_ADR_MAX to 0).
C13_CacheEqualsLatch ==
    (pc = "idle" /\ FRAM_current_adr # FRAM_INVALID_ADR)
    => FRAM_current_adr = latch

\* C14: in every reachable state the cache is FRAM_INVALID_ADR or an address
\* the codec accepts, 0 .. FRAM_ADR_MAX.
C14_CacheInRange ==
    FRAM_current_adr = FRAM_INVALID_ADR \/ ValidAdr(FRAM_current_adr)

\* C15: after FRAM_write_to_adr(a, buf, n) whose transfer was accepted, a
\* valid and n >= 1, the cache is a + n, not reduced modulo the device size
\* (so it may exceed FRAM_ADR_MAX).
C15_WriteCacheUnwrapped ==
    (/\ Returned /\ op = "FRAM_write_to_adr"
     /\ Len(xfers) = 1 /\ xfers[1].result = I2C_MSTR_NO_ERROR)
    => /\ ValidAdr(adr) /\ count >= 1
       /\ ret = FRAM_NO_ERROR
       /\ FRAM_current_adr = adr + count

C15_Witness ==
    /\ Returned /\ op = "FRAM_write_to_adr"
    /\ adr = 131071 /\ count = 253
    /\ xfers[1].result = I2C_MSTR_NO_ERROR
    /\ FRAM_current_adr = 131324

\* C16: in FRAM_read_from_adr a read transfer is made only when FRAM_set_adr
\* was skipped (cache equal to the address) or has returned FRAM_NO_ERROR;
\* when FRAM_set_adr returns anything else (FRAM_PARAMTER_ERROR or the status
\* of its rejected transfer), FRAM_read_from_adr returns that value and makes
\* no further Transport call.
C16_ShortCircuit ==
    (op = "FRAM_read_from_adr")
    => /\ \A k \in 1 .. Len(xfers) :
            xfers[k].kind = "R" =>
               \/ cache0 = adr /\ k = 1
               \/ /\ cache0 # adr /\ k = 2
                  /\ xfers[1].kind = "W"
                  /\ xfers[1].result = I2C_MSTR_NO_ERROR
       /\ (pc = "idle" /\ cache0 # adr /\ ~ValidAdr(adr))
            => (ret = FRAM_PARAMTER_ERROR /\ xfers = <<>>)
       /\ (pc = "idle" /\ cache0 # adr /\ ValidAdr(adr)
              /\ xfers[1].result # I2C_MSTR_NO_ERROR)
            => (ret = xfers[1].result /\ Len(xfers) = 1)

C16_Witness ==
    /\ Returned /\ op = "FRAM_read_from_adr"
    /\ cache0 # adr /\ ValidAdr(adr) /\ buffer # NULL /\ count > 0
    /\ Len(xfers) = 1
    /\ xfers[1].kind = "W" /\ xfers[1].result = I2C_MSTR_NOT_READY
    /\ ret = I2C_MSTR_NOT_READY

\* the completion flag for a transfer of kind k is set in the master status
FlagSet(k) ==
    IF k = "W" THEN BitAnd(mstrStatus, I2C_MSTAT_WR_CMPLT) # 0
    ELSE BitAnd(mstrStatus, I2C_MSTAT_RD_CMPLT) # 0

\* the transfer the running (or last) call started is still on the bus
OwnTransferInFlight == inflight # None /\ inflight.call = ncalls

\* C17: a call that waits (FRAM_set_adr and FRAM_read_current_adr with
\* FRAM_WAIT, FRAM_read_from_adr, FRAM_write_to_adr) returns only after the
\* completion flag of each of its transfers (write-complete for a write,
\* read-complete for a read) has been seen set, so none of its accepted
\* transfers is still on the bus; with FRAM_DONT_WAIT, FRAM_set_adr and
\* FRAM_read_current_adr never enter a busy-wait.
C17_BlockingCompletion ==
    /\ (pc = "set_upd" /\ wait = FRAM_WAIT) => FlagSet("W")
    /\ (Returned /\ wait = FRAM_WAIT)
         => /\ \A k \in 1 .. Len(xfers) : FlagSet(xfers[k].kind)
            /\ (xfers # <<>> /\ xfers[Len(xfers)].result = I2C_MSTR_NO_ERROR)
                 => ~OwnTransferInFlight
    /\ (wait = FRAM_DONT_WAIT)
         => /\ op \in {"none", "FRAM_set_adr", "FRAM_read_current_adr"}
            /\ pc \notin {"set_wait", "rd_wait", "wr_wait"}

C17_Witness ==
    /\ Returned /\ op = "FRAM_read_from_adr" /\ wait = FRAM_WAIT
    /\ ret = FRAM_NO_ERROR
    /\ Kinds = <<"W", "R">>
    /\ FlagSet("W") /\ FlagSet("R")
    /\ inflight = None

\* C18: when FRAM_read_current_adr is called with the cache unknown
\* (FRAM_INVALID_ADR), the cache is still unknown when the call returns,
\* whatever the count and the wait mode.
C18_UnknownStaysUnknown ==
    (Returned /\ op = "FRAM_read_current_adr" /\ cache0 = FRAM_INVALID_ADR)
    => FRAM_current_adr = FRAM_INVALID_ADR

\* C19: FRAM_write_to_adr terminates for every valid address and every
\* count >= 1, 254 and more included, provided the hardware completes the
\* transfer: the copy loop is left and the transfer issued, and once the
\* transfer is accepted the call returns.
C19_WriteTerminates ==
    /\ (pc = "wr_copy") ~> (pc = "wr_wait")
    /\ (pc = "wr_wait" /\ i2c_result = I2C_MSTR_NO_ERROR) ~> (pc = "idle")

\* the busy-wait the running call is in can still end: the flag it polls is
\* set, or a transfer is on the bus whose completion will set it
WaitCanEnd ==
    /\ pc \in {"set_wait", "wr_wait"}
         => (FlagSet("W") \/ (inflight # None /\ inflight.kind = "W"))
    /\ pc = "rd_wait"
         => (FlagSet("R") \/ (inflight # None /\ inflight.kind = "R"))

\* C20: when the Transport rejects the transfer of a waiting call
\* (FRAM_set_adr and FRAM_read_current_adr with FRAM_WAIT, FRAM_read_from_adr,
\* FRAM_write_to_adr), the call is never left in a busy-wait that cannot end,
\* and when it returns it returns the Transport's status.
C20_RejectedTransferReported ==
    (/\ op # "none" /\ wait = FRAM_WAIT
     /\ xfers # <<>>
     /\ xfers[Len(xfers)].result # I2C_MSTR_NO_ERROR)
    => /\ WaitCanEnd
       /\ pc = "idle" => ret = xfers[Len(xfers)].result

=============================================================================
